---- MODULE Spec2Model ----
(* The SynIC connection-port registry of vmm_core (src/vmm_core/src/synic.rs):  *)
(* SynicPorts, its PortMap, the dispatch entry points on_post_message and       *)
(* on_signal_event, the registration entry points add_message_port and          *)
(* add_event_port, and PortHandle with its Drop.  Every call is a frame on the   *)
(* calling thread's stack; a port handler that is running may re-enter the       *)
(* registry, which pushes a further frame on the same thread.                    *)
EXTENDS Integers, Sequences, FiniteSets, TLC

\* ---------------------------------------------------------------- bounds
\* Calls (register, dispatch, release) made over one run of concurrent threads.
MaxCalls == 3
\* Calls made over one run of a single thread.
MaxCallsSeq == 4
\* Frames on one thread: 1 is a plain call, 2 a call made from inside a handler.
MaxDepth == 2
\* Registries (SynicPorts values) constructed one after the other over one run.
MaxRegistries == 2

\* ---------------------------------------------------------------- inputs
Threads == {"t1", "t2"}
ConnIds == {7, 42}
\* hvdef::Vtl, ordered Vtl0 < Vtl1 < Vtl2
Vtl == 0..2
\* (message, secure) pairs given to on_post_message
MessageArgs == {[message |-> <<170>>, secure |-> FALSE], [message |-> <<>>, secure |-> TRUE]}
\* flag_number values given to on_signal_event
FlagNumbers == {3, 0}
\* what Synic::new_host_event_port answers: an error, Ok(None) or Ok(Some(binding))
HostAnswers == {"Err", "None", "Some"}

\* vmcore::monitor::MonitorId values given to register_monitor
MonitorIds == {1, 2}
\* Option<u64> values given to set_monitor_page: None, Some(4096)
Gpas == {<<>>, <<4096>>}

VARIABLES
    ports,     \* ports[g][c]: the HashMap<u32, Port> of registry g (NoPort: no entry)
    cur,       \* the registry constructed last
    live,      \* whether the SynicPorts value of registry cur still exists
    handles,   \* the PortHandle values that exist and are not being dropped
    bindings,  \* the host event ports that exist in the partition
    stack,     \* stack[t]: the frames of the calls thread t is inside, outermost first
    lock,      \* the owner <<t, depth>> of the PortMap mutex guard, or NoLock
    threads,   \* the threads that run
    left,      \* calls the run may still start
    objects,   \* port objects (Arc<dyn MessagePort>, Arc<dyn EventPort>) made so far
    released,  \* history: the handles whose drop has returned, and whether the
               \* registry was gone when the drop started
    partition  \* the partition (Arc<dyn Synic>): whether it has monitor support, its
               \* prefer_os_events, the last call the registry forwarded to it and
               \* what the registry answered

vars == <<ports, cur, live, handles, bindings, stack, lock, threads, left, objects, released,
         partition>>

NoLock == <<>>
NoPort == [id |-> 0, port_type |-> "None", minimum_vtl |-> 0]
EmptyMap == [c \in ConnIds |-> NoPort]

Registries == 1..MaxRegistries

\* ---------------------------------------------------------------- frames
Top(t) == stack[t][Len(stack[t])]
Depth(t) == Len(stack[t])
At(t, op, pc) == Depth(t) > 0 /\ Top(t).op = op /\ Top(t).pc = pc
SetTop(t, f) == [stack EXCEPT ![t] = [@ EXCEPT ![Len(@)] = f]]
Push(t, f) == [stack EXCEPT ![t] = Append(@, f)]
Pop(t) == [stack EXCEPT ![t] = SubSeq(@, 1, Len(@) - 1)]

Frames == {<<t, i>> \in Threads \X (1..MaxDepth + 1) : i <= Len(stack[t])}
FrameAt(x) == stack[x[1]][x[2]]

\* A frame holds what the call still needs and what it has answered: the registry
\* it runs on, the connection ID once the code has used it, the port it looked up
\* (dispatch) or removed (release), the identity of the port object it registers or
\* of the handle it releases, whether it holds a host binding, its result, the
\* handler invocations it has made, and what the partition answered if the call
\* asked it for a host event port ("none" when it did not ask).  The arguments of a call are drawn in the step
\* that first reads them.  The result of a drop frame is history: "gone" when the
\* registry's map no longer existed at the upgrade.
NewFrame(op, pc, reg, hid, inner) ==
    [op |-> op, pc |-> pc, reg |-> reg, conn |-> 0, vtl |-> 0, port |-> NoPort,
     hid |-> hid, inner |-> inner, result |-> "none", recv |-> <<>>, host |-> "none"]

\* A thread may start a call when it is idle, or from inside a running handler.
CanCall(t) ==
    /\ t \in threads
    /\ left > 0
    /\ \/ Depth(t) = 0
       \/ Depth(t) > 0 /\ Depth(t) < MaxDepth /\ Top(t).pc = "handler"

\* The strong count of registry g's Arc<PortMap>: the SynicPorts value, and the
\* temporary Arc of every PortHandle::drop between its upgrade and the end of its
\* `if let` block.
Upgraded(g) ==
    {x \in Frames : /\ FrameAt(x).op = "drop" /\ FrameAt(x).reg = g
                    /\ FrameAt(x).pc \in {"lock", "expect"}}
Strong(g) == (IF live /\ g = cur THEN 1 ELSE 0) + Cardinality(Upgraded(g))

\* ---------------------------------------------------------------- Init
\* SynicPorts::new: an empty map, no handle, no call in progress.
Constructed ==
    /\ ports = [g \in Registries |-> EmptyMap]
    /\ cur = 1
    /\ live = TRUE
    /\ handles = {}
    /\ bindings = {}
    /\ stack = [t \in Threads |-> <<>>]
    /\ lock = NoLock
    /\ objects = 0
    /\ released = {}

\* A partition as SynicPorts::new receives it: nothing forwarded to it yet.
Partition(monitor_support, prefer_os_events) ==
    [monitor_support |-> monitor_support, prefer_os_events |-> prefer_os_events,
     called |-> <<>>, answer |-> <<>>]

\* the partition of the runs that make no monitor calls
SomePartition == Partition(TRUE, FALSE)

\* device threads and guest-exit threads call into the registry concurrently
Init == Constructed /\ threads = Threads /\ left = MaxCalls /\ partition = SomePartition

\* one thread calls into the registry
InitSeq == Constructed /\ threads = {"t1"} /\ left = MaxCallsSeq /\ partition = SomePartition

\* one thread calls into the registries their owner constructs one after the other
InitLife == Constructed /\ threads = {"t1"} /\ left = MaxCalls /\ partition = SomePartition

\* one thread calls into a registry whose partition may or may not have monitor
\* support and may or may not prefer OS events
InitMonitor ==
    /\ Constructed /\ threads = {"t1"} /\ left = MaxCalls
    /\ partition \in {Partition(m, e) : m, e \in BOOLEAN}

\* ---------------------------------------------------------------- the mutex
\* self.ports.lock(): parking_lot's mutex is not re-entrant; the statement that takes
\* it runs once no guard exists, also not one of the calling thread itself.
CanLock(t) == Depth(t) > 0 /\ Top(t).pc = "lock" /\ lock = NoLock

\* (a guard bound to a variable, which lives to the end of the function)
GuardAfterLookup_Held(t) == <<t, Depth(t)>>

\* The guard of `self.ports.lock().get(..).cloned()` is a temporary of the let
\* statement and is dropped at its end, before the match on the cloned port.
GuardAfterLookup(t) == NoLock

\* ---------------------------------------------------------------- on_post_message
CallPostMessage(t) ==
    /\ CanCall(t) /\ live
    /\ stack' = Push(t, NewFrame("post", "lock", cur, 0, FALSE))
    /\ left' = left - 1
    /\ UNCHANGED <<ports, cur, live, handles, bindings, lock, threads, objects, released, partition>>

\* (a gate that also refuses the minimum VTL itself)
VtlDenied_Strict(vtl, minimum_vtl) == vtl <= minimum_vtl

\* the gate of both dispatch functions: `if vtl < minimum_vtl`
VtlDenied(vtl, minimum_vtl) == vtl < minimum_vtl

\* (a match that only rules out the event variant)
IsMessagePort_NotEvent(port) == port.port_type # "Event"

\* `if let Some(Port { port_type: PortType::Message(port), minimum_vtl }) = port`
IsMessagePort(port) == port.port_type = "Message"

\* (a match on Some(_) that does not look at the variant)
IsEventPort_Any(port) == port.port_type # "None"

\* `if let Some(Port { port_type: PortType::Event(port), minimum_vtl }) = port`
IsEventPort(port) == port.port_type = "Event"

\* (the secure flag is not passed on)
HandleMessageArgs_NotSecure(a) == [a EXCEPT !.secure = FALSE]

\* what the handler is called with: handle_message(message, secure)
HandleMessageArgs(a) == a

\* (the handler is called before the gate's answer is returned)
PostMessageMatch_CallsThenDenies(f, port, vtl, a) ==
    IF port.port_type = "Message"
    THEN IF vtl < port.minimum_vtl
         THEN [f EXCEPT !.port = port, !.pc = "ret", !.result = "OperationDenied",
                        !.recv = Append(@, [id |-> port.id, arg |-> a])]
         ELSE [f EXCEPT !.port = port, !.pc = "handler",
                        !.recv = Append(@, [id |-> port.id, arg |-> a])]
    ELSE [f EXCEPT !.port = port, !.pc = "ret", !.result = "InvalidConnectionId"]

\* (the lookup takes the entry out of the map)
MapAfterGet_Removes(map, c) == [map EXCEPT ![c] = NoPort]

\* `.get(&connection_id).cloned()` reads the map: the map after it
MapAfterGet(map, c) == map

\* (the gate is looked at before the variant)
PostMessageMatch_GateFirst(f, port, vtl, a) ==
    IF port # NoPort /\ vtl < port.minimum_vtl
    THEN [f EXCEPT !.port = port, !.pc = "ret", !.result = "OperationDenied"]
    ELSE IF port.port_type = "Message"
         THEN [f EXCEPT !.port = port, !.pc = "handler",
                        !.recv = Append(@, [id |-> port.id, arg |-> a])]
         ELSE [f EXCEPT !.port = port, !.pc = "ret", !.result = "InvalidConnectionId"]

\* The match of on_post_message on the cloned port: the frame after it.
PostMessageMatch(f, port, vtl, a) ==
    IF IsMessagePort(port)
    THEN IF VtlDenied(vtl, port.minimum_vtl)
         THEN [f EXCEPT !.port = port, !.pc = "ret", !.result = "OperationDenied"]
         ELSE [f EXCEPT !.port = port, !.pc = "handler",
                        !.recv = Append(@, [id |-> port.id, arg |-> HandleMessageArgs(a)])]
    ELSE [f EXCEPT !.port = port, !.pc = "ret", !.result = "InvalidConnectionId"]

\* `let port = self.ports.lock().get(&connection_id).cloned();` and the match
PostMessageLookup(t, vtl, c, a) ==
    /\ CanLock(t) /\ Top(t).op = "post"
    /\ lock' = GuardAfterLookup(t)
    /\ ports' = [ports EXCEPT ![Top(t).reg] = MapAfterGet(@, c)]
    /\ stack' = SetTop(t, PostMessageMatch([Top(t) EXCEPT !.conn = c],
                                           ports[Top(t).reg][c], vtl, a))
    /\ UNCHANGED <<cur, live, handles, bindings, threads, left, objects, released, partition>>

\* (the handler's answer is not looked at)
PostMessageResult_AlwaysOk(b) == "Ok"

\* port.handle_message(message, secure) returns: true is Ok, false InsufficientBuffers
PostMessageResult(b) == IF b THEN "Ok" ELSE "InsufficientBuffers"

HandleMessageReturns(t, b) ==
    /\ At(t, "post", "handler")
    /\ stack' = SetTop(t, [Top(t) EXCEPT !.pc = "ret", !.result = PostMessageResult(b)])
    /\ UNCHANGED <<ports, cur, live, handles, bindings, lock, threads, left, objects, released, partition>>

\* ---------------------------------------------------------------- on_signal_event
CallSignalEvent(t) ==
    /\ CanCall(t) /\ live
    /\ stack' = Push(t, NewFrame("signal", "lock", cur, 0, FALSE))
    /\ left' = left - 1
    /\ UNCHANGED <<ports, cur, live, handles, bindings, lock, threads, objects, released, partition>>

\* (the handler is called with flag 0)
HandleEventArgs_Zero(flag) == 0

\* what the handler is called with: handle_event(flag_number)
HandleEventArgs(flag) == flag

SignalEventMatch(f, port, vtl, flag) ==
    IF IsEventPort(port)
    THEN IF VtlDenied(vtl, port.minimum_vtl)
         THEN [f EXCEPT !.port = port, !.pc = "ret", !.result = "OperationDenied"]
         ELSE [f EXCEPT !.port = port, !.pc = "handler",
                        !.recv = Append(@, [id |-> port.id, arg |-> HandleEventArgs(flag)])]
    ELSE [f EXCEPT !.port = port, !.pc = "ret", !.result = "InvalidConnectionId"]

\* `let port = self.ports.lock().get(&connection_id).cloned();` and the match
SignalEventLookup(t, vtl, c, flag) ==
    /\ CanLock(t) /\ Top(t).op = "signal"
    /\ lock' = GuardAfterLookup(t)
    /\ ports' = [ports EXCEPT ![Top(t).reg] = MapAfterGet(@, c)]
    /\ stack' = SetTop(t, SignalEventMatch([Top(t) EXCEPT !.conn = c],
                                           ports[Top(t).reg][c], vtl, flag))
    /\ UNCHANGED <<cur, live, handles, bindings, threads, left, objects, released, partition>>

\* port.handle_event(flag_number) returns; the function answers Ok(())
HandleEventReturns(t) ==
    /\ At(t, "signal", "handler")
    /\ stack' = SetTop(t, [Top(t) EXCEPT !.pc = "ret", !.result = "Ok"])
    /\ UNCHANGED <<ports, cur, live, handles, bindings, lock, threads, left, objects, released, partition>>

\* ---------------------------------------------------------------- registration
\* (the guard of the match outlives the function's locals)
GuardAfterMatch_Held(t) == <<t, Depth(t)>>

\* The guard of `match self.ports.lock().entry(connection_id) { .. }` is a temporary
\* of the match: it is dropped when the match is left, through its end or through
\* the `return` of the Occupied arm, before the function's locals and parameters.
GuardAfterMatch(t) == NoLock

\* `Port { port_type, minimum_vtl }`; id is the identity of the Arc'd port object
NewPort(id, port_type, minimum_vtl) ==
    [id |-> id, port_type |-> port_type, minimum_vtl |-> minimum_vtl]

\* `hash_map::Entry::Occupied(_)`
EntryOccupied(map, c) == map[c] # NoPort

\* (the entry is inserted before its minimum VTL is set)
EntryInsert_Partial(map, c, port) == [map EXCEPT ![c] = [port EXCEPT !.minimum_vtl = 0]]

\* `hash_map::Entry::Vacant(e) => { e.insert(Port { .. }); }`
EntryInsert(map, c, port) == [map EXCEPT ![c] = port]

\* (HashMap::insert in place of the entry API: the new port replaces the old one)
EntryMap_Overwrite(map, c, port) == [map EXCEPT ![c] = port]

\* (no early return on an occupied entry)
EntryResult_AlwaysOk(map, c) == "Ok"

\* The `match self.ports.lock().entry(connection_id)` of both registration
\* functions: the map after it, and the result.
EntryMap(map, c, port) == IF EntryOccupied(map, c) THEN map ELSE EntryInsert(map, c, port)
EntryResult(map, c) == IF EntryOccupied(map, c) THEN "ConnectionIdInUse" ELSE "Ok"

\* The caller made a new port object and registers it.
CallAddMessagePort(t) ==
    /\ CanCall(t) /\ live
    /\ stack' = Push(t, NewFrame("add_message", "lock", cur, objects + 1, FALSE))
    /\ left' = left - 1
    /\ objects' = objects + 1
    /\ UNCHANGED <<ports, cur, live, handles, bindings, lock, threads, released, partition>>

AddMessagePortEntry(t, c, minimum_vtl) ==
    /\ CanLock(t) /\ Top(t).op = "add_message"
    /\ LET f == Top(t) IN
       /\ ports' = [ports EXCEPT ![f.reg] =
                       EntryMap(@, c, NewPort(f.hid, "Message", minimum_vtl))]
       /\ stack' = SetTop(t, [f EXCEPT !.conn = c, !.pc = "ret",
                                       !.result = EntryResult(ports[f.reg], c)])
    /\ lock' = GuardAfterMatch(t)
    /\ UNCHANGED <<cur, live, handles, bindings, threads, left, objects, released, partition>>

CallAddEventPort(t) ==
    /\ CanCall(t) /\ live
    /\ stack' = Push(t, NewFrame("add_event", "os_event", cur, objects + 1, FALSE))
    /\ left' = left - 1
    /\ objects' = objects + 1
    /\ UNCHANGED <<ports, cur, live, handles, bindings, lock, threads, released, partition>>

\* the host event port Synic::new_host_event_port(connection_id, minimum_vtl, event)
\* makes
Binding(f) == [id |-> f.hid, conn |-> f.conn, minimum_vtl |-> f.vtl]

\* (the error of the partition is swallowed and the registration goes on unbound)
HostError_Ignored(f) == [f EXCEPT !.pc = "lock"]

\* the `?` on the answer of new_host_event_port: an error ends the call with it
HostError(f) == [f EXCEPT !.pc = "ret", !.result = "HostError"]

\* (the partition is asked whether or not the port has an event of the host)
CallsPartition_Always(os_event) == TRUE

\* `if let Some(event) = port.os_event()`: the partition is asked for a host event
\* port when the port exposes an event of the host
CallsPartition(os_event) == os_event

\* `let inner_handle = if let Some(event) = port.os_event() { new_host_event_port(..)? }
\*  else { None }`: os_event says whether port.os_event() is Some, answer is what the
\* partition answers.
NewHostEventPort(t, c, minimum_vtl, os_event, answer) ==
    /\ At(t, "add_event", "os_event")
    /\ LET f == [Top(t) EXCEPT !.conn = c, !.vtl = minimum_vtl] IN
       IF ~CallsPartition(os_event)
       THEN /\ answer = "None"
            /\ bindings' = bindings
            /\ stack' = SetTop(t, [f EXCEPT !.pc = "lock"])
       ELSE LET g == [f EXCEPT !.host = answer] IN
            CASE answer = "Err" ->
                   /\ bindings' = bindings
                   /\ stack' = SetTop(t, HostError(g))
              [] answer = "None" ->
                   /\ bindings' = bindings
                   /\ stack' = SetTop(t, [g EXCEPT !.pc = "lock"])
              [] answer = "Some" ->
                   /\ bindings' = bindings \cup {Binding(g)}
                   /\ stack' = SetTop(t, [g EXCEPT !.pc = "lock", !.inner = TRUE])
    /\ UNCHANGED <<ports, cur, live, handles, lock, threads, left, objects, released, partition>>

AddEventPortEntry(t) ==
    /\ CanLock(t) /\ Top(t).op = "add_event"
    /\ LET f == Top(t) IN
       /\ ports' = [ports EXCEPT ![f.reg] =
                       EntryMap(@, f.conn, NewPort(f.hid, "Event", f.vtl))]
       /\ stack' = SetTop(t, [f EXCEPT !.pc = "ret",
                                       !.result = EntryResult(ports[f.reg], f.conn)])
    /\ lock' = GuardAfterMatch(t)
    /\ UNCHANGED <<cur, live, handles, bindings, threads, left, objects, released, partition>>

\* ---------------------------------------------------------------- PortHandle
\* (a handle that does not keep the binding)
PortHandle_NoInner(f) == [id |-> f.hid, reg |-> f.reg, connection_id |-> f.conn, inner |-> FALSE]

\* `Ok(Box::new(PortHandle { ports: Arc::downgrade(&self.ports), connection_id,
\*  _inner_handle }))`
PortHandle(f) == [id |-> f.hid, reg |-> f.reg, connection_id |-> f.conn, inner |-> f.inner]

\* (a handle that does not look whether the map still exists)
UpgradePc_Always(g) == "lock"

\* `if let Some(ports) = self.ports.upgrade()`: where drop goes on
UpgradePc(g) == IF Strong(g) > 0 THEN "lock" ELSE "fields"

\* The caller lets go of a handle it holds: PortHandle::drop starts and tries to
\* upgrade its Weak.
CallDrop(t, h) ==
    /\ CanCall(t)
    /\ h \in handles
    /\ handles' = handles \ {h}
    /\ stack' = Push(t, [NewFrame("drop", UpgradePc(h.reg), h.reg, h.id, h.inner)
                             EXCEPT !.conn = h.connection_id,
                                    !.result = IF Strong(h.reg) > 0 THEN "none" ELSE "gone"])
    /\ left' = left - 1
    /\ UNCHANGED <<ports, cur, live, bindings, lock, threads, objects, released, partition>>

\* (a lookup in place of the removal)
MapRemove_Nothing(map, c) == map

\* `ports.lock().remove(&self.connection_id)`: the map after it
MapRemove(map, c) == [map EXCEPT ![c] = NoPort]

\* (the binding outlives the value that owned it)
DropInnerHandle_Leak(bs, f) == bs

\* the drop of an Option<Box<dyn Sync + Send>> that a frame or a handle owns
\* (inner_handle, _inner_handle): Some closes the host event port
DropInnerHandle(bs, f) == IF f.inner THEN {b \in bs : b.id # f.hid} ELSE bs

\* (the guard of the removal lives to the end of the block)
GuardAfterRemove_Held(t) == <<t, Depth(t)>>

\* The guard of `ports.lock().remove(&self.connection_id)` is a temporary of the let
\* statement: it is dropped at its end, before `entry.expect(..)` and before the
\* entry is dropped at the end of the block.
GuardAfterRemove(t) == NoLock

\* `let entry = ports.lock().remove(&self.connection_id);`
Remove(t) ==
    /\ CanLock(t) /\ Top(t).op = "drop"
    /\ LET f == Top(t) IN
       /\ ports' = [ports EXCEPT ![f.reg] = MapRemove(@, f.conn)]
       /\ stack' = SetTop(t, [f EXCEPT !.pc = "expect", !.port = ports[f.reg][f.conn]])
    /\ lock' = GuardAfterRemove(t)
    /\ UNCHANGED <<cur, live, handles, bindings, threads, left, objects, released, partition>>

\* `entry.expect("port was previously added")`: whether it panics
ExpectPanics(entry) == entry = NoPort

\* The rest of drop.  After an upgrade: the expect, then the end of the `if let`
\* block, where the entry and the upgraded Arc are dropped (the last Arc frees the
\* map).  Then, in both cases, the fields are dropped: the Weak, and _inner_handle,
\* which closes the host event port.  Then drop returns.
DropEnds(t) ==
    /\ Depth(t) > 0 /\ Top(t).op = "drop" /\ Top(t).pc \in {"expect", "fields"}
    /\ LET f == Top(t) IN
       IF f.pc = "expect" /\ ExpectPanics(f.port)
       THEN /\ stack' = SetTop(t, [f EXCEPT !.pc = "panicked"])
            /\ UNCHANGED <<ports, bindings, released>>
       ELSE /\ ports' = IF f.pc = "expect" /\ Strong(f.reg) = 1
                        THEN [ports EXCEPT ![f.reg] = EmptyMap] ELSE ports
            /\ bindings' = DropInnerHandle(bindings, f)
            /\ released' = released \cup {[handle |-> PortHandle(f), gone |-> f.result = "gone"]}
            /\ stack' = Pop(t)
    /\ UNCHANGED <<cur, live, handles, lock, threads, left, objects, partition>>

\* ---------------------------------------------------------------- return
\* A dispatch or a registration returns to its caller.  A successful registration
\* hands the caller its PortHandle; a registration that failed drops its locals,
\* inner_handle among them; a guard the frame still held is dropped.
Return(t) ==
    /\ Depth(t) > 0 /\ Top(t).pc = "ret"
    /\ LET f == Top(t) IN
       /\ handles' = IF f.op \in {"add_message", "add_event"} /\ f.result = "Ok"
                     THEN handles \cup {PortHandle(f)} ELSE handles
       /\ bindings' = IF f.op = "add_event" /\ f.result # "Ok"
                      THEN DropInnerHandle(bindings, f) ELSE bindings
    /\ lock' = IF lock = <<t, Depth(t)>> THEN NoLock ELSE lock
    /\ stack' = Pop(t)
    /\ UNCHANGED <<ports, cur, live, threads, left, objects, released, partition>>

\* ---------------------------------------------------------------- SynicPorts
\* Methods take &self: the SynicPorts value cannot be dropped while a call on it is
\* in progress.  PortHandle::drop borrows nothing from it.
Borrowed == \E x \in Frames : FrameAt(x).op # "drop"

\* The SynicPorts value is dropped: its Arc<PortMap> goes, and the map with it
\* unless a PortHandle::drop holds an upgraded Arc.
DropSynicPorts ==
    /\ live /\ ~Borrowed
    /\ live' = FALSE
    /\ ports' = IF Upgraded(cur) = {} THEN [ports EXCEPT ![cur] = EmptyMap] ELSE ports
    /\ UNCHANGED <<cur, handles, bindings, stack, lock, threads, left, objects, released, partition>>

\* SynicPorts::new: `ports: Default::default()`
New ==
    /\ ~live /\ cur < MaxRegistries
    /\ cur' = cur + 1
    /\ live' = TRUE
    /\ UNCHANGED <<ports, handles, bindings, stack, lock, threads, left, objects, released, partition>>

\* ---------------------------------------------------------------- monitor
\* One of the run's calls is a call of a function that only forwards to the
\* partition: the call the registry makes on it, and what the registry's own
\* function returns.
Forward(fn, args, answer) ==
    /\ left > 0
    /\ left' = left - 1
    /\ partition' = [partition EXCEPT !.called = <<fn, args>>, !.answer = <<answer>>]
    /\ UNCHANGED <<ports, cur, live, handles, bindings, stack, lock, threads, objects, released>>

\* `self.partition.prefer_os_events()`
PreferOsEvents ==
    /\ live
    /\ Forward("prefer_os_events", <<>>, partition.prefer_os_events)

\* (the registry always offers itself as the monitor capability)
MonitorSupportAnswer_Always(p) == "Some(self)"

\* `self.partition.monitor_support().and(Some(self))`
MonitorSupportAnswer(p) == IF p.monitor_support THEN "Some(self)" ELSE "None"

MonitorSupport ==
    /\ live
    /\ Forward("monitor_support", <<>>, MonitorSupportAnswer(partition))

\* (the two u32-sized arguments are passed in the other order)
RegisterMonitorArgs_Swapped(monitor_id, connection_id) == <<connection_id, monitor_id>>

\* `.register_monitor(monitor_id, connection_id)`
RegisterMonitorArgs(monitor_id, connection_id) == <<monitor_id, connection_id>>

\* `self.partition.monitor_support().unwrap().register_monitor(monitor_id,
\*  connection_id)`: the unwrap panics when the partition has no monitor support;
\* the Box<dyn Send> of the partition is returned as it is.
RegisterMonitor(monitor_id, connection_id) ==
    /\ live
    /\ IF partition.monitor_support
       THEN Forward("register_monitor", RegisterMonitorArgs(monitor_id, connection_id),
                    [box |-> <<monitor_id, connection_id>>])
       ELSE Forward("monitor_support", <<>>, "panicked")

\* `self.partition.monitor_support().unwrap().set_monitor_page(gpa)`: result is what
\* the partition's set_monitor_page answers.
SetMonitorPage(gpa, result) ==
    /\ live
    /\ IF partition.monitor_support
       THEN Forward("set_monitor_page", <<gpa>>, result)
       ELSE Forward("monitor_support", <<>>, "panicked")

\* ---------------------------------------------------------------- Next
Next ==
    \/ \E t \in Threads : CallPostMessage(t)
    \/ \E t \in Threads : CallSignalEvent(t)
    \/ \E t \in Threads : CallAddMessagePort(t)
    \/ \E t \in Threads : CallAddEventPort(t)
    \/ \E t \in Threads, h \in handles : CallDrop(t, h)
    \/ \E t \in Threads, vtl \in Vtl, c \in ConnIds, a \in MessageArgs :
          PostMessageLookup(t, vtl, c, a)
    \/ \E t \in Threads, b \in BOOLEAN : HandleMessageReturns(t, b)
    \/ \E t \in Threads, vtl \in Vtl, c \in ConnIds, flag \in FlagNumbers :
          SignalEventLookup(t, vtl, c, flag)
    \/ \E t \in Threads : HandleEventReturns(t)
    \/ \E t \in Threads, c \in ConnIds, m \in Vtl : AddMessagePortEntry(t, c, m)
    \/ \E t \in Threads, c \in ConnIds, m \in Vtl, e \in BOOLEAN, answer \in HostAnswers :
          NewHostEventPort(t, c, m, e, answer)
    \/ \E t \in Threads : AddEventPortEntry(t)
    \/ \E t \in Threads : Remove(t)
    \/ \E t \in Threads : DropEnds(t)
    \/ \E t \in Threads : Return(t)

\* the registry's owner may also drop it, and construct the next one
NextLife ==
    \/ Next
    \/ DropSynicPorts
    \/ New

\* registry calls and calls of the monitor and prefer_os_events functions
NextMonitor ==
    \/ Next
    \/ PreferOsEvents
    \/ MonitorSupport
    \/ \E m \in MonitorIds, c \in ConnIds : RegisterMonitor(m, c)
    \/ \E gpa \in Gpas, r \in {"Ok", "Err"} : SetMonitorPage(gpa, r)

\* concurrent threads on one registry
Spec == Init /\ [][Next]_vars
\* one thread on one registry
SpecSeq == InitSeq /\ [][Next]_vars
\* A call that has started goes on: threads are scheduled, the mutex is handed to a
\* waiting thread, and handlers and the partition return.
Continue(t) ==
    \/ \E vtl \in Vtl, c \in ConnIds, a \in MessageArgs : PostMessageLookup(t, vtl, c, a)
    \/ \E b \in BOOLEAN : HandleMessageReturns(t, b)
    \/ \E vtl \in Vtl, c \in ConnIds, flag \in FlagNumbers : SignalEventLookup(t, vtl, c, flag)
    \/ HandleEventReturns(t)
    \/ \E c \in ConnIds, m \in Vtl : AddMessagePortEntry(t, c, m)
    \/ \E c \in ConnIds, m \in Vtl, e \in BOOLEAN, answer \in HostAnswers :
          NewHostEventPort(t, c, m, e, answer)
    \/ AddEventPortEntry(t)
    \/ Remove(t)
    \/ DropEnds(t)
    \/ Return(t)

\* one thread on one registry, scheduled fairly
SpecSeqFair == InitSeq /\ [][Next]_vars /\ \A t \in Threads : WF_vars(Continue(t))
\* The steps of a started call that the registry itself takes: everything but the
\* return of a port handler, which is the handler's business.
Proceed(t) ==
    \/ \E vtl \in Vtl, c \in ConnIds, a \in MessageArgs : PostMessageLookup(t, vtl, c, a)
    \/ \E vtl \in Vtl, c \in ConnIds, flag \in FlagNumbers : SignalEventLookup(t, vtl, c, flag)
    \/ \E c \in ConnIds, m \in Vtl : AddMessagePortEntry(t, c, m)
    \/ \E c \in ConnIds, m \in Vtl, e \in BOOLEAN, answer \in HostAnswers :
          NewHostEventPort(t, c, m, e, answer)
    \/ AddEventPortEntry(t)
    \/ Remove(t)
    \/ DropEnds(t)
    \/ Return(t)
\* one thread, on a registry over any partition, with the monitor functions
SpecMonitor == InitMonitor /\ [][NextMonitor]_vars
\* concurrent threads, and the owner of the registries
SpecLifeConc == Init /\ [][NextLife]_vars
\* one thread, and the owner of the registries
SpecLife == InitLife /\ [][NextLife]_vars
\* one thread on one registry, with the call budget of the concurrent runs
SpecOne == InitLife /\ [][Next]_vars
\* the same, scheduled fairly
SpecOneFair == InitLife /\ [][Next]_vars /\ \A t \in Threads : WF_vars(Continue(t))

\* ---------------------------------------------------------------- properties
TopAfter(t) == stack'[t][Len(stack'[t])]
Dispatching(f) == f.op \in {"post", "signal"}
Registering(f) == f.op \in {"add_message", "add_event"}
\* the frame of a dispatch that did not call the handler and answers r
Refused(f, r) == f.pc = "ret" /\ f.result = r /\ f.recv = <<>>
\* the frame of a dispatch that has just called the handler of port
Invoked(f, port) == f.pc = "handler" /\ Len(f.recv) = 1 /\ f.recv[1].id = port.id

\* what the gate owes a dispatch from vtl that looked up port
GateOutcome(f, vtl, port) ==
    IF vtl < port.minimum_vtl THEN Refused(f, "OperationDenied") ELSE Invoked(f, port)

\* C1: a dispatch whose lookup finds an entry of the matching variant with minimum
\* VTL m is refused with OperationDenied, without a handler call, when its caller
\* VTL is below m, and calls the entry's handler otherwise.
C1_VtlGate ==
    [][\A t \in Threads, vtl \in Vtl, c \in ConnIds :
          /\ \A a \in MessageArgs :
                PostMessageLookup(t, vtl, c, a) /\ ports[cur][c].port_type = "Message"
                   => GateOutcome(TopAfter(t), vtl, ports[cur][c])
          /\ \A flag \in FlagNumbers :
                SignalEventLookup(t, vtl, c, flag) /\ ports[cur][c].port_type = "Event"
                   => GateOutcome(TopAfter(t), vtl, ports[cur][c])]_vars

\* one dispatch is refused at the gate of a port while another is inside its handler
C1_Witness ==
    \E x, y \in Frames :
        /\ Dispatching(FrameAt(x)) /\ Refused(FrameAt(x), "OperationDenied")
        /\ Dispatching(FrameAt(y)) /\ FrameAt(y).pc = "handler"
        /\ FrameAt(x).port = FrameAt(y).port

\* C2: a registration of a connection ID that has an entry answers
\* ConnectionIdInUse and leaves the map as it is; the call hands out no handle; the
\* port it was given is never in the map, so a dispatch to the ID finds the entry of
\* the first registration.
C2_Uniqueness ==
    /\ [](\A x \in Frames :
             Registering(FrameAt(x)) /\ FrameAt(x).result = "ConnectionIdInUse"
                => \A c \in ConnIds : ports[FrameAt(x).reg][c].id # FrameAt(x).hid)
    /\ [][/\ \A t \in Threads, c \in ConnIds, m \in Vtl :
                AddMessagePortEntry(t, c, m) /\ ports[cur][c] # NoPort
                   => TopAfter(t).result = "ConnectionIdInUse" /\ ports' = ports
          /\ \A t \in Threads :
                AddEventPortEntry(t) /\ ports[cur][Top(t).conn] # NoPort
                   => TopAfter(t).result = "ConnectionIdInUse" /\ ports' = ports
          /\ \A t \in Threads :
                Return(t) /\ Top(t).result = "ConnectionIdInUse" => handles' = handles
          /\ \A t \in Threads, vtl \in Vtl, c \in ConnIds :
                /\ \A a \in MessageArgs :
                      PostMessageLookup(t, vtl, c, a) => TopAfter(t).port = ports[cur][c]
                /\ \A flag \in FlagNumbers :
                      SignalEventLookup(t, vtl, c, flag) => TopAfter(t).port = ports[cur][c]
         ]_vars

\* a second registration of an ID was refused while the first registration's handle
\* is held and a dispatch is inside the first registration's handler
C2_Witness ==
    \E x, y \in Frames :
        /\ Registering(FrameAt(x)) /\ FrameAt(x).result = "ConnectionIdInUse"
        /\ \E h \in handles : /\ h.connection_id = FrameAt(x).conn
                              /\ ports[cur][h.connection_id].id = h.id
                              /\ Dispatching(FrameAt(y)) /\ FrameAt(y).pc = "handler"
                              /\ FrameAt(y).port.id = h.id

\* C3: once the drop of the handle for c has returned, the entry of its registration
\* is not in the map: c has no entry, or the entry another registration has inserted
\* since (C4: one entry per ID); a dispatch that finds no entry answers
\* InvalidConnectionId, and a registration that finds no entry succeeds and inserts
\* its port.
C3_UnregisterCorrectness ==
    /\ [](\A r \in released :
             ports[r.handle.reg][r.handle.connection_id].id # r.handle.id)
    /\ [][/\ \A t \in Threads, vtl \in Vtl, c \in ConnIds :
                /\ \A a \in MessageArgs :
                      PostMessageLookup(t, vtl, c, a) /\ ports[cur][c] = NoPort
                         => Refused(TopAfter(t), "InvalidConnectionId")
                /\ \A flag \in FlagNumbers :
                      SignalEventLookup(t, vtl, c, flag) /\ ports[cur][c] = NoPort
                         => Refused(TopAfter(t), "InvalidConnectionId")
          /\ \A t \in Threads, c \in ConnIds, m \in Vtl :
                AddMessagePortEntry(t, c, m) /\ ports[cur][c] = NoPort
                   => TopAfter(t).result = "Ok" /\ ports'[cur][c].id = Top(t).hid
          /\ \A t \in Threads :
                AddEventPortEntry(t) /\ ports[cur][Top(t).conn] = NoPort
                   => TopAfter(t).result = "Ok" /\ ports'[cur][Top(t).conn].id = Top(t).hid
         ]_vars

\* a handle was released and a dispatch to its connection ID was then refused
C3_Witness ==
    \E r \in released, x \in Frames :
        /\ ports[cur][r.handle.connection_id] = NoPort
        /\ Dispatching(FrameAt(x)) /\ FrameAt(x).conn = r.handle.connection_id
        /\ Refused(FrameAt(x), "InvalidConnectionId")

\* The handles that exist and have not removed their entry: those their owners
\* hold, the one a registration that has inserted is about to return, and those
\* whose drop has not reached the removal.
HandleOf(f) == PortHandle(f)
Unreleased ==
    handles
    \cup {HandleOf(FrameAt(x)) : x \in {y \in Frames : /\ Registering(FrameAt(y))
                                                        /\ FrameAt(y).pc = "ret"
                                                        /\ FrameAt(y).result = "Ok"}}
    \cup {HandleOf(FrameAt(x)) : x \in {y \in Frames : /\ FrameAt(y).op = "drop"
                                                        /\ FrameAt(y).pc = "lock"}}
InRelease == {x \in Frames : FrameAt(x).op = "drop"}

\* C4: no two unreleased handles own the same connection ID; every map entry is
\* owned by exactly one unreleased handle; a handle is released once, and its
\* removal finds its own entry.
C4_HandleEntry ==
    /\ [](/\ \A h1, h2 \in Unreleased :
                h1.reg = h2.reg /\ h1.connection_id = h2.connection_id => h1 = h2
          /\ \A c \in ConnIds :
                ports[cur][c] # NoPort
                   => Cardinality({h \in Unreleased : /\ h.reg = cur /\ h.connection_id = c
                                                      /\ h.id = ports[cur][c].id}) = 1
          /\ \A x \in InRelease :
                /\ \A h \in handles : h.id # FrameAt(x).hid
                /\ \A r \in released : r.handle.id # FrameAt(x).hid
                /\ \A y \in InRelease : FrameAt(y).hid = FrameAt(x).hid => x = y
          /\ \A x \in Frames : FrameAt(x).pc # "panicked")
    /\ [][\A t \in Threads :
             Remove(t) => /\ ports[Top(t).reg][Top(t).conn] # NoPort
                          /\ ports'[Top(t).reg][Top(t).conn] = NoPort]_vars

\* one handle has been released and another, still held, has its entry in the map
C4_Witness ==
    /\ released # {}
    /\ \E h \in handles : ports[cur][h.connection_id].id = h.id

\* C5: the removal of a handle's drop takes out the entry its own registration
\* inserted and no other, also when the connection ID has been registered again.
C5_ReleaseOwnEntry ==
    [][\A t \in Threads :
          Remove(t) => /\ ports[Top(t).reg][Top(t).conn].id = Top(t).hid
                       /\ \A g \in Registries, c \in ConnIds :
                             <<g, c>> # <<Top(t).reg, Top(t).conn>> => ports'[g][c] = ports[g][c]
      ]_vars

\* a connection ID was registered, released, registered again and the second
\* handle's drop has removed the second entry
C5_Witness ==
    \E r \in released, x \in Frames :
        /\ FrameAt(x).op = "drop" /\ FrameAt(x).pc = "expect"
        /\ FrameAt(x).conn = r.handle.connection_id /\ FrameAt(x).reg = r.handle.reg
        /\ FrameAt(x).hid # r.handle.id
        /\ FrameAt(x).port.id = FrameAt(x).hid

\* C6: while a thread is inside a port handler it does not hold the map's lock.
C6_NoLockInHandler ==
    \A x \in Frames : FrameAt(x).pc = "handler" => lock = NoLock \/ lock[1] # x[1]

\* two dispatches are inside handlers
C6_Witness ==
    \E x, y \in Frames : x # y /\ FrameAt(x).pc = "handler" /\ FrameAt(y).pc = "handler"

\* A message handler, called by on_post_message, has called add_event_port for an
\* ID other than the one it was dispatched on.
NestedAddEvent(t) ==
    /\ Depth(t) >= 2
    /\ stack[t][1].op = "post" /\ stack[t][1].pc = "handler"
    /\ stack[t][2].op = "add_event"

\* C7: a message handler that calls add_event_port for another connection ID while
\* on_post_message is calling it is not blocked: the nested registration takes the
\* lock, succeeds when the ID is free, and returns, and the outer on_post_message
\* returns.
C7_ReentrantRegister ==
    /\ \A t \in Threads : NestedAddEvent(t) ~> Depth(t) = 0
    /\ [](\A t \in Threads : NestedAddEvent(t) /\ stack[t][2].pc = "lock" => lock = NoLock)
    /\ [][\A t \in Threads :
             /\ NestedAddEvent(t) /\ Depth(t) = 2 /\ AddEventPortEntry(t)
             /\ Top(t).conn # stack[t][1].conn
             /\ ports[cur][Top(t).conn] = NoPort
             => /\ TopAfter(t).result = "Ok" /\ TopAfter(t).pc = "ret"
                /\ ports'[cur][Top(t).conn] = NewPort(Top(t).hid, "Event", Top(t).vtl)]_vars

\* the nested registration of another ID has succeeded inside the message handler
C7_Witness ==
    \E t \in Threads :
        /\ NestedAddEvent(t) /\ Depth(t) = 2
        /\ Top(t).pc = "ret" /\ Top(t).result = "Ok"
        /\ Top(t).conn # stack[t][1].conn
        /\ ports[cur][Top(t).conn].id = Top(t).hid

\* C8: a dispatch whose lookup finds no entry answers InvalidConnectionId whatever
\* the caller's VTL, and calls no handler.
C8_LookupMiss ==
    [][\A t \in Threads, vtl \in Vtl, c \in ConnIds :
          /\ \A a \in MessageArgs :
                PostMessageLookup(t, vtl, c, a) /\ ports[cur][c] = NoPort
                   => Refused(TopAfter(t), "InvalidConnectionId") /\ TopAfter(t).port = NoPort
          /\ \A flag \in FlagNumbers :
                SignalEventLookup(t, vtl, c, flag) /\ ports[cur][c] = NoPort
                   => Refused(TopAfter(t), "InvalidConnectionId") /\ TopAfter(t).port = NoPort
      ]_vars

\* an event dispatch has missed on one ID while the other ID holds an event port
C8_Witness ==
    \E x \in Frames :
        /\ FrameAt(x).op = "signal"
        /\ FrameAt(x).port = NoPort /\ Refused(FrameAt(x), "InvalidConnectionId")
        /\ ports[cur][FrameAt(x).conn] = NoPort
        /\ \E c \in ConnIds : ports[cur][c].port_type = "Event"

\* C9: on_signal_event on an ID registered as a message port, and on_post_message on
\* an ID registered as an event port, answer InvalidConnectionId and call no handler.
C9_TypeIsolation ==
    [][\A t \in Threads, vtl \in Vtl, c \in ConnIds :
          /\ \A a \in MessageArgs :
                PostMessageLookup(t, vtl, c, a) /\ ports[cur][c].port_type = "Event"
                   => Refused(TopAfter(t), "InvalidConnectionId")
          /\ \A flag \in FlagNumbers :
                SignalEventLookup(t, vtl, c, flag) /\ ports[cur][c].port_type = "Message"
                   => Refused(TopAfter(t), "InvalidConnectionId")
      ]_vars

\* an event dispatch has been refused on a message port while a message dispatch to
\* the same port is inside its handler
C9_Witness ==
    \E x, y \in Frames :
        /\ FrameAt(x).op = "signal" /\ FrameAt(x).port.port_type = "Message"
        /\ Refused(FrameAt(x), "InvalidConnectionId")
        /\ FrameAt(y).op = "post" /\ FrameAt(y).pc = "handler"
        /\ FrameAt(y).port = FrameAt(x).port

\* the drop on top of thread t's stack started when its registry's map was gone
DropOfGone(t) == Depth(t) > 0 /\ Top(t).op = "drop" /\ Top(t).result = "gone"

\* C10: the drop of a handle whose registry's map no longer exists fails no
\* assertion and changes no map, also not that of a registry constructed later.
C10_DropAfterRegistry ==
    /\ [](\A x \in Frames :
             FrameAt(x).op = "drop" /\ FrameAt(x).result = "gone" => FrameAt(x).pc # "panicked")
    /\ [][\A t \in Threads :
             /\ (DropOfGone(t) /\ (Remove(t) \/ DropEnds(t)) => ports' = ports)
             /\ (DropOfGone(t) /\ DropEnds(t) => stack' = Pop(t))
             /\ \A h \in handles :
                   CallDrop(t, h) /\ Strong(h.reg) = 0 => ports' = ports /\ DropOfGone(t)'
         ]_vars

\* a handle of the first registry was dropped after that registry was gone, while
\* the second registry holds an entry for the same connection ID
C10_Witness ==
    \E r \in released :
        /\ r.gone /\ r.handle.reg # cur /\ live
        /\ ports[cur][r.handle.connection_id] # NoPort

\* C11: add_event_port on a port with an os_event, when new_host_event_port fails,
\* ends with that failure without reaching the map: the step and the return leave
\* every map as it is, the port it was given is never in a map, no binding was made
\* and the return hands out no handle.
C11_HostFailure ==
    /\ [](\A x \in Frames :
             FrameAt(x).result = "HostError"
                => /\ FrameAt(x).pc = "ret" /\ ~FrameAt(x).inner
                   /\ \A g \in Registries, c \in ConnIds : ports[g][c].id # FrameAt(x).hid
                   /\ \A b \in bindings : b.id # FrameAt(x).hid)
    /\ [][\A t \in Threads :
             /\ \A c \in ConnIds, m \in Vtl :
                   NewHostEventPort(t, c, m, TRUE, "Err")
                      => TopAfter(t).result = "HostError" /\ ports' = ports
             /\ Depth(t) > 0 /\ Top(t).result = "HostError" /\ Return(t)
                   => ports' = ports /\ handles' = handles /\ stack' = Pop(t)]_vars

\* a registration has failed in the partition for an ID that another handle, still
\* held, has registered
C11_Witness ==
    \E x \in Frames, h \in handles :
        /\ FrameAt(x).op = "add_event" /\ FrameAt(x).result = "HostError"
        /\ FrameAt(x).conn = h.connection_id
        /\ ports[cur][h.connection_id].id = h.id

\* C12: a registration that fails with ConnectionIdInUse has no side effect: the
\* map is unchanged, and add_event_port has made no host binding through the
\* partition during the failed call.
C12_InUseNoSideEffect ==
    /\ [](\A x \in Frames :
             Registering(FrameAt(x)) /\ FrameAt(x).result = "ConnectionIdInUse"
                => ~FrameAt(x).inner /\ \A b \in bindings : b.id # FrameAt(x).hid)
    /\ [][\A t \in Threads :
             /\ \A c \in ConnIds, m \in Vtl :
                   AddMessagePortEntry(t, c, m) /\ TopAfter(t).result = "ConnectionIdInUse"
                      => ports' = ports
             /\ AddEventPortEntry(t) /\ TopAfter(t).result = "ConnectionIdInUse"
                   => ports' = ports]_vars

\* the entry the registration behind handle h inserted is in its registry's map
EntryOf(h) == ports[h.reg][h.connection_id].id = h.id
\* a host binding made for the port object id exists
Bound(id) == \E b \in bindings : b.id = id

\* C13 (as stated): in no state, the intermediate states of register and release
\* included, does a host binding exist without its registrant's map entry, or the
\* entry exist without the binding the partition returned for it.
C13_NeverPartial ==
    /\ \A b \in bindings : \E g \in Registries : ports[g][b.conn].id = b.id
    /\ \A h \in Unreleased : h.inner /\ EntryOf(h) => Bound(h.id)

\* C13 (amended): add_event_port makes the binding before it inserts the entry; the
\* entry of a registration the partition returned a binding for never exists
\* without that binding; a binding exists without its registrant's entry only while
\* the registrant's add_event_port is between new_host_event_port and its insert or
\* its return of ConnectionIdInUse, while the handle's drop is between the removal
\* and its end, or once the registry is gone.
C13_EntryHasBinding ==
    /\ [](/\ \A h \in Unreleased : h.inner /\ EntryOf(h) => Bound(h.id)
          /\ \A b \in bindings :
                \/ \E g \in Registries : ports[g][b.conn].id = b.id
                \/ \E x \in Frames :
                      /\ FrameAt(x).hid = b.id /\ FrameAt(x).inner
                      /\ \/ FrameAt(x).op = "add_event" /\ FrameAt(x).pc = "lock"
                         \/ /\ FrameAt(x).op = "add_event" /\ FrameAt(x).pc = "ret"
                            /\ FrameAt(x).result = "ConnectionIdInUse"
                         \/ FrameAt(x).op = "drop" /\ FrameAt(x).pc \in {"expect", "fields"}
                \/ \E h \in handles : h.id = b.id /\ ~(live /\ h.reg = cur))
    /\ [][\A t \in Threads :
             AddEventPortEntry(t) /\ Top(t).inner /\ TopAfter(t).result = "Ok"
                => Bound(Top(t).hid) /\ ports[Top(t).reg][Top(t).conn] = NoPort]_vars

\* an event port with a host binding is registered and its handle held, while a
\* dispatch to it is inside its handler
C13_Witness ==
    \E h \in handles, x \in Frames :
        /\ h.inner /\ EntryOf(h) /\ Bound(h.id)
        /\ FrameAt(x).op = "signal" /\ FrameAt(x).pc = "handler"
        /\ FrameAt(x).port.id = h.id

\* C14: the binding new_host_event_port returned is in the handle the registration
\* returns; it exists for as long as the handle is held; it is torn down only by
\* the drop of that handle, which has removed the entry (or by a registration that
\* failed and returned no handle); once the drop has returned neither the entry
\* nor the binding remains.
C14_BindingWithHandle ==
    /\ [](/\ \A h \in handles : h.inner => Bound(h.id)
          /\ \A r \in released : ~Bound(r.handle.id) /\ ~EntryOf(r.handle))
    /\ [][/\ \A t \in Threads :
                /\ Return(t) /\ Top(t).op = "add_event" /\ Top(t).result = "Ok"
                      => \E h \in handles' \ handles :
                            /\ h.id = Top(t).hid /\ h.inner = Top(t).inner
                            /\ h.inner = Bound(h.id)
                /\ \A h \in handles : CallDrop(t, h) => stack'[t][Len(stack'[t])].inner = h.inner
          /\ \A b \in bindings \ bindings' :
                \E t \in Threads :
                   /\ Depth(t) > 0 /\ Top(t).hid = b.id
                   /\ \/ DropEnds(t) /\ ~EntryOf(PortHandle(Top(t)))
                      \/ Return(t) /\ Top(t).op = "add_event" /\ Top(t).result # "Ok"
         ]_vars

\* the drop of a handle that held a binding has returned, while another handle
\* that holds a binding is still held
C14_Witness ==
    \E r \in released, h \in handles :
        /\ r.handle.inner /\ ~r.gone
        /\ h.inner /\ Bound(h.id) /\ EntryOf(h)

\* C15: on_post_message, once its handler has been called, answers Ok when the
\* handler returns true and InsufficientBuffers when it returns false; every result
\* of on_post_message is Ok, InvalidConnectionId, OperationDenied or
\* InsufficientBuffers.
C15_PostMessageResult ==
    /\ [](\A x \in Frames :
             FrameAt(x).op = "post"
                => /\ FrameAt(x).result \in {"none", "Ok", "InvalidConnectionId",
                                             "OperationDenied", "InsufficientBuffers"}
                   /\ FrameAt(x).pc = "ret" <=> FrameAt(x).result # "none")
    /\ [][\A t \in Threads, b \in BOOLEAN :
             HandleMessageReturns(t, b)
                => /\ TopAfter(t).pc = "ret"
                   /\ b <=> TopAfter(t).result = "Ok"
                   /\ ~b <=> TopAfter(t).result = "InsufficientBuffers"]_vars

\* an on_post_message made from inside the handler of a port, to the same port,
\* has answered InsufficientBuffers after its one handler call
C15_Witness ==
    \E x, y \in Frames :
        /\ FrameAt(x).op = "post" /\ FrameAt(x).pc = "ret"
        /\ FrameAt(x).result = "InsufficientBuffers" /\ Len(FrameAt(x).recv) = 1
        /\ FrameAt(y).op = "post" /\ FrameAt(y).pc = "handler"
        /\ FrameAt(x).port = FrameAt(y).port /\ Len(FrameAt(y).recv) = 1

\* C16: on_signal_event on an event entry whose minimum VTL the caller meets calls
\* the entry's handler with the flag number it was given, and answers Ok when the
\* handler returns; no result of on_signal_event is InsufficientBuffers.
C16_SignalEventResult ==
    /\ [](\A x \in Frames :
             FrameAt(x).op = "signal"
                => /\ FrameAt(x).result \in {"none", "Ok", "InvalidConnectionId",
                                             "OperationDenied"}
                   /\ FrameAt(x).pc = "ret" <=> FrameAt(x).result # "none")
    /\ [][\A t \in Threads :
             /\ \A vtl \in Vtl, c \in ConnIds, flag \in FlagNumbers :
                   /\ SignalEventLookup(t, vtl, c, flag)
                   /\ ports[cur][c].port_type = "Event" /\ vtl >= ports[cur][c].minimum_vtl
                   => /\ TopAfter(t).pc = "handler"
                      /\ TopAfter(t).recv = <<[id |-> ports[cur][c].id, arg |-> flag]>>
             /\ HandleEventReturns(t)
                   => TopAfter(t).pc = "ret" /\ TopAfter(t).result = "Ok"]_vars

\* a signal of flag 3 from VTL2 to an event port of minimum VTL2 has returned Ok
C16_Witness ==
    \E x \in Frames :
        /\ FrameAt(x).op = "signal" /\ FrameAt(x).result = "Ok"
        /\ FrameAt(x).port.port_type = "Event" /\ FrameAt(x).port.minimum_vtl = 2
        /\ FrameAt(x).recv = <<[id |-> FrameAt(x).port.id, arg |-> 3]>>

\* every Port value a dispatch has looked up or a map holds
Observed ==
    {FrameAt(x).port : x \in {y \in Frames : Dispatching(FrameAt(y))}}
    \cup {ports[g][c] : g \in Registries, c \in ConnIds}

\* C17: a registration inserts, in one step, the entry with the variant, the handler
\* and the minimum VTL it was given; a dispatch reads, in one step, either no entry
\* (and answers InvalidConnectionId) or the entry the map holds; no two Port values
\* seen by dispatches or held by a map have the same handler and differ otherwise;
\* the handler a dispatch calls is that of the entry it read.
C17_Linearizable ==
    /\ [](/\ \A p, q \in Observed : p.id = q.id => p = q
          /\ \A x \in Frames :
                Dispatching(FrameAt(x)) /\ FrameAt(x).recv # <<>>
                   => FrameAt(x).recv[1].id = FrameAt(x).port.id /\ FrameAt(x).port # NoPort)
    /\ [][\A t \in Threads :
             Depth(t) > 0 /\ stack'[t] # stack[t]
             => /\ Top(t).op = "add_message"
                   => \A c \in ConnIds, m \in Vtl :
                         AddMessagePortEntry(t, c, m) /\ ports[Top(t).reg][c] = NoPort
                            => ports'[Top(t).reg][c] =
                                  [id |-> Top(t).hid, port_type |-> "Message", minimum_vtl |-> m]
                /\ Top(t).op = "add_event" /\ Top(t).pc = "os_event"
                   => \A c \in ConnIds, m \in Vtl, e \in BOOLEAN, answer \in HostAnswers :
                         NewHostEventPort(t, c, m, e, answer)
                            => TopAfter(t).vtl = m /\ TopAfter(t).conn = c /\ ports' = ports
                /\ AddEventPortEntry(t) /\ ports[Top(t).reg][Top(t).conn] = NoPort
                   => ports'[Top(t).reg][Top(t).conn] =
                         [id |-> Top(t).hid, port_type |-> "Event", minimum_vtl |-> Top(t).vtl]
                /\ Top(t).op = "post"
                   => \A vtl \in Vtl, c \in ConnIds, a \in MessageArgs :
                         PostMessageLookup(t, vtl, c, a)
                            => /\ TopAfter(t).port = ports[Top(t).reg][c]
                               /\ ports[Top(t).reg][c] = NoPort
                                     => Refused(TopAfter(t), "InvalidConnectionId")
                /\ Top(t).op = "signal"
                   => \A vtl \in Vtl, c \in ConnIds, flag \in FlagNumbers :
                         SignalEventLookup(t, vtl, c, flag)
                            => /\ TopAfter(t).port = ports[Top(t).reg][c]
                               /\ ports[Top(t).reg][c] = NoPort
                                     => Refused(TopAfter(t), "InvalidConnectionId")
         ]_vars

\* a dispatch to an ID found no entry before the registration of the ID, and another
\* found the entry after it and is inside the handler
C17_Witness ==
    \E x, y \in Frames :
        /\ Dispatching(FrameAt(x)) /\ Dispatching(FrameAt(y))
        /\ FrameAt(x).conn = FrameAt(y).conn
        /\ FrameAt(x).port = NoPort /\ Refused(FrameAt(x), "InvalidConnectionId")
        /\ FrameAt(y).pc = "handler" /\ FrameAt(y).port = ports[cur][FrameAt(y).conn]
        /\ FrameAt(y).port.minimum_vtl = 1

\* C18: an entry does not change between its insertion and its removal: a step
\* that finds an entry for an ID of a registry and leaves one holds the same
\* entry; an entry appears only by the insert of the registration that owns its
\* port object, and goes only by the removal of that registration's handle or with
\* its registry's map.
C18_EntriesImmutable ==
    [][\A g \in Registries, c \in ConnIds :
          ports'[g][c] # ports[g][c]
          => /\ ports[g][c] = NoPort \/ ports'[g][c] = NoPort
             /\ ports[g][c] = NoPort
                   => \E t \in Threads :
                         /\ Depth(t) > 0 /\ Registering(Top(t)) /\ Top(t).pc = "lock"
                         /\ Top(t).reg = g /\ ports'[g][c].id = Top(t).hid
                         /\ TopAfter(t).result = "Ok" /\ TopAfter(t).conn = c
             /\ ports'[g][c] = NoPort
                   => \/ \E t \in Threads :
                            /\ Remove(t) /\ Top(t).reg = g /\ Top(t).conn = c
                            /\ Top(t).hid = ports[g][c].id
                      \/ Strong(g)' = 0
      ]_vars

\* an event registration with another minimum VTL was refused for an ID that holds
\* a message entry, whose handle is held and whose entry is as inserted
C18_Witness ==
    \E x \in Frames, h \in handles :
        /\ FrameAt(x).op = "add_event" /\ FrameAt(x).result = "ConnectionIdInUse"
        /\ FrameAt(x).conn = h.connection_id /\ EntryOf(h)
        /\ ports[cur][h.connection_id].port_type = "Message"
        /\ ports[cur][h.connection_id].minimum_vtl # FrameAt(x).vtl

\* thread t is inside a port handler (which may have called back into the registry)
InHandler(t) == \E i \in 1..Depth(t) : stack[t][i].pc = "handler"
\* thread u is inside a registry call that is not waiting for a handler
Running(u) == Depth(u) > 0 /\ Top(u).pc # "handler"

\* the steps the call on top of a stack has left before it returns or calls a
\* handler
StepsLeft(f) ==
    CASE f.pc = "os_event" -> 3
      [] f.pc = "lock" -> 2
      [] f.pc \in {"expect", "fields", "ret"} -> 1
      [] OTHER -> 0

\* C19: while a dispatch is inside its handler, every other call in progress, on
\* any thread and any connection ID, can take its next step (the lock is free for
\* it), and each step a call takes brings it nearer to its return or to its own
\* handler call: it runs to completion whether or not the first handler returns.
C19_NotSerialized ==
    /\ [](\A t, u \in Threads : InHandler(t) /\ Running(u) => ENABLED Proceed(u))
    /\ [][\A u \in Threads :
             Running(u) /\ stack'[u] # stack[u]
             => \/ stack' = Pop(u)
                \/ /\ Len(stack'[u]) = Depth(u)
                   /\ TopAfter(u).pc # "panicked"
                   /\ StepsLeft(TopAfter(u)) < StepsLeft(Top(u))]_vars

\* two threads are inside the handler of the same port, for the same connection ID
C19_Witness ==
    \E t, u \in Threads :
        /\ t # u /\ Depth(t) = 1 /\ Depth(u) = 1
        /\ Top(t).pc = "handler" /\ Top(u).pc = "handler"
        /\ Top(t).conn = Top(u).conn /\ Top(t).port = Top(u).port
        /\ Top(t).port = ports[cur][Top(t).conn]

\* C20: a dispatch calls a handler at most once: once when it answers Ok or
\* InsufficientBuffers, never when it answers InvalidConnectionId or
\* OperationDenied; a call that has a result is at its return, where the result
\* goes to its own caller and the call ends, without a further lookup or handler
\* call.
C20_NoRetry ==
    /\ [](\A x \in Frames :
             Dispatching(FrameAt(x))
             => /\ Len(FrameAt(x).recv) <= 1
                /\ FrameAt(x).result \in {"Ok", "InsufficientBuffers"}
                      => Len(FrameAt(x).recv) = 1
                /\ FrameAt(x).result \in {"InvalidConnectionId", "OperationDenied"}
                      => Len(FrameAt(x).recv) = 0
                /\ FrameAt(x).pc = "handler" => Len(FrameAt(x).recv) = 1
                /\ FrameAt(x).result # "none" => FrameAt(x).pc = "ret")
    /\ [][\A t \in Threads :
             Depth(t) > 0 /\ Dispatching(Top(t)) /\ Top(t).result # "none"
                /\ stack'[t] # stack[t]
             => Return(t) /\ stack' = Pop(t)]_vars

\* of two on_signal_event calls to one port, one is inside its one handler call and
\* the other, made from there, was denied at the gate without a handler call
C20_Witness ==
    \E x, y \in Frames :
        /\ FrameAt(x).op = "signal" /\ FrameAt(y).op = "signal"
        /\ FrameAt(x).port = FrameAt(y).port
        /\ FrameAt(x).result = "OperationDenied" /\ FrameAt(x).recv = <<>>
        /\ FrameAt(x).pc = "ret"
        /\ FrameAt(y).pc = "handler" /\ Len(FrameAt(y).recv) = 1

\* C21: a dispatch that passes the gate calls the handler of the entry registered
\* for the connection ID it was called with, which is the port of no other ID, and
\* gives it the message bytes and secure flag (on_post_message) or the flag number
\* (on_signal_event) of the call, unchanged.
C21_HandlerArguments ==
    [][\A t \in Threads :
          Depth(t) > 0 /\ stack'[t] # stack[t] /\ Top(t).pc = "lock"
          => /\ Top(t).op = "post"
                => \A vtl \in Vtl, c \in ConnIds, a \in MessageArgs :
                      /\ PostMessageLookup(t, vtl, c, a)
                      /\ ports[cur][c].port_type = "Message" /\ vtl >= ports[cur][c].minimum_vtl
                      => /\ TopAfter(t).recv =
                               <<[id |-> ports[cur][c].id,
                                  arg |-> [message |-> a.message, secure |-> a.secure]]>>
                         /\ \A d \in ConnIds \ {c} : ports[cur][d].id # TopAfter(t).recv[1].id
             /\ Top(t).op = "signal"
                => \A vtl \in Vtl, c \in ConnIds, flag \in FlagNumbers :
                      /\ SignalEventLookup(t, vtl, c, flag)
                      /\ ports[cur][c].port_type = "Event" /\ vtl >= ports[cur][c].minimum_vtl
                      => /\ TopAfter(t).recv = <<[id |-> ports[cur][c].id, arg |-> flag]>>
                         /\ \A d \in ConnIds \ {c} : ports[cur][d].id # TopAfter(t).recv[1].id
      ]_vars

\* a message port is registered for 42 (minimum VTL0) and another port for 7; a post
\* of [0xAA], not secure, from VTL0 to 42 reached the handler of 42 and answers Ok
C21_Witness ==
    \E x \in Frames :
        /\ FrameAt(x).op = "post" /\ FrameAt(x).conn = 42 /\ FrameAt(x).result = "Ok"
        /\ FrameAt(x).port.minimum_vtl = 0 /\ ports[cur][42] = FrameAt(x).port
        /\ FrameAt(x).recv = <<[id |-> ports[cur][42].id,
                                arg |-> [message |-> <<170>>, secure |-> FALSE]]>>
        /\ ports[cur][7] # NoPort /\ ports[cur][7].id # ports[cur][42].id

\* the statements and handler returns the call of frame f has left before it returns
Remaining(f) ==
    CASE f.pc = "os_event" -> 4
      [] f.pc = "lock" -> 3
      [] f.pc = "handler" -> 2
      [] f.pc \in {"expect", "fields", "ret"} -> 1
      [] OTHER -> 0

\* C22: no call is ever stuck: in every state each thread inside a call can take
\* the call's next step (with the handler and the partition returning), calls made
\* from inside handlers and calls of other threads included; and each step of a
\* thread inside a call returns from the call, brings it nearer to its return, or
\* is a call its running handler makes.  So under fair scheduling every register,
\* dispatch and release returns, and no state with a call in progress is a deadlock.
C22_Terminates ==
    /\ [](\A t \in Threads : Depth(t) > 0 => ENABLED Continue(t))
    /\ [][\A t \in Threads :
             Depth(t) > 0 /\ stack'[t] # stack[t]
             => \/ stack' = Pop(t)
                \/ /\ Len(stack'[t]) = Depth(t) + 1
                   /\ Top(t).pc = "handler" /\ SubSeq(stack'[t], 1, Depth(t)) = stack[t]
                \/ /\ Len(stack'[t]) = Depth(t)
                   /\ TopAfter(t).pc # "panicked"
                   /\ Remaining(TopAfter(t)) < Remaining(Top(t))]_vars

\* a handler, while it runs, drops the handle of its own port, and the drop has
\* taken the lock and removed the entry
C22_Witness ==
    \E t \in Threads :
        /\ Depth(t) = 2 /\ stack[t][1].pc = "handler"
        /\ Top(t).op = "drop" /\ Top(t).pc = "expect"
        /\ Top(t).hid = stack[t][1].port.id /\ Top(t).port = stack[t][1].port

\* C23: monitor_support answers Some exactly when the partition's monitor_support
\* does; register_monitor and set_monitor_page, on a partition with monitor support,
\* call the partition's capability with the arguments they were given and return
\* what it returns; prefer_os_events returns the partition's value; none of them
\* changes a map, a handle, a binding or the lock.
C23_MonitorDelegation ==
    [][/\ MonitorSupport
          => /\ partition'.called = <<"monitor_support", <<>>>>
             /\ partition'.answer = <<"Some(self)">> <=> partition.monitor_support
             /\ partition'.answer = <<"None">> <=> ~partition.monitor_support
       /\ PreferOsEvents
          => /\ partition'.called = <<"prefer_os_events", <<>>>>
             /\ partition'.answer = <<partition.prefer_os_events>>
       /\ \A m \in MonitorIds, c \in ConnIds :
             RegisterMonitor(m, c) /\ partition.monitor_support
                => /\ partition'.called = <<"register_monitor", <<m, c>>>>
                   /\ partition'.answer = <<[box |-> <<m, c>>]>>
       /\ \A gpa \in Gpas, r \in {"Ok", "Err"} :
             SetMonitorPage(gpa, r) /\ partition.monitor_support
                => /\ partition'.called = <<"set_monitor_page", <<gpa>>>>
                   /\ partition'.answer = <<r>>
       /\ partition'.called # partition.called \/ partition'.answer # partition.answer
          => /\ UNCHANGED <<ports, handles, bindings, lock, stack, cur, live>>
             /\ partition'.monitor_support = partition.monitor_support
             /\ partition'.prefer_os_events = partition.prefer_os_events
      ]_vars

\* with a port registered for 42 and its handle held, register_monitor(2, 42) was
\* forwarded to a partition with monitor support that prefers OS events
C23_Witness ==
    /\ partition.monitor_support /\ partition.prefer_os_events
    /\ partition.called = <<"register_monitor", <<2, 42>>>>
    /\ \E h \in handles : h.connection_id = 42 /\ EntryOf(h)

\* C24: the expect of PortHandle::drop never panics: whenever a drop has upgraded
\* its Weak and removed under the lock, what it removed is the entry of its own
\* registration, under every interleaving of calls of two threads, calls made from
\* inside handlers, and the registry's owner dropping it.
C24_ExpectNeverFails ==
    \A x \in Frames :
        /\ FrameAt(x).pc # "panicked"
        /\ FrameAt(x).op = "drop" /\ FrameAt(x).pc = "expect"
              => /\ ~ExpectPanics(FrameAt(x).port)
                 /\ FrameAt(x).port.id = FrameAt(x).hid

\* a drop upgraded its Weak, the registry's owner then dropped the registry, and the
\* drop has removed its entry from the map it keeps alive
C24_Witness ==
    \E x \in Frames :
        /\ FrameAt(x).op = "drop" /\ FrameAt(x).pc = "expect"
        /\ FrameAt(x).reg = cur /\ ~live
        /\ FrameAt(x).port.id = FrameAt(x).hid

\* the dispatch frames that are inside the handler of the port object id
InFlight(id) ==
    {x \in Frames : /\ Dispatching(FrameAt(x)) /\ FrameAt(x).pc = "handler"
                    /\ FrameAt(x).port.id = id}

C25_WitnessConc ==
    \E x \in Frames, r \in released :
        /\ Dispatching(FrameAt(x)) /\ FrameAt(x).result = "Ok" /\ Depth(x[1]) = 1
        /\ r.handle.id = FrameAt(x).port.id /\ r.handle.connection_id = FrameAt(x).conn
        /\ ports[cur][FrameAt(x).conn] = NoPort

\* C26: a dispatch whose lookup finds an entry of the other variant answers
\* InvalidConnectionId and calls no handler also when the caller's VTL is below the
\* entry's minimum VTL; a dispatch answers OperationDenied only when the entry it
\* found has the variant it dispatches to (and the caller's VTL is below its minimum).
C26_VariantBeforeGate ==
    /\ [](\A x \in Frames :
             Dispatching(FrameAt(x)) /\ FrameAt(x).result = "OperationDenied"
                => FrameAt(x).port.port_type
                      = (IF FrameAt(x).op = "post" THEN "Message" ELSE "Event"))
    /\ [][\A t \in Threads :
             Depth(t) > 0 /\ Top(t).pc = "lock" /\ Dispatching(Top(t))
             => \A vtl \in Vtl, c \in ConnIds :
                   /\ \A a \in MessageArgs :
                         PostMessageLookup(t, vtl, c, a)
                         => /\ ports[cur][c].port_type = "Event"
                                  /\ vtl < ports[cur][c].minimum_vtl
                               => Refused(TopAfter(t), "InvalidConnectionId")
                            /\ TopAfter(t).result = "OperationDenied"
                               => /\ ports[cur][c].port_type = "Message"
                                  /\ vtl < ports[cur][c].minimum_vtl
                   /\ \A flag \in FlagNumbers :
                         SignalEventLookup(t, vtl, c, flag)
                         => /\ ports[cur][c].port_type = "Message"
                                  /\ vtl < ports[cur][c].minimum_vtl
                               => Refused(TopAfter(t), "InvalidConnectionId")
                            /\ TopAfter(t).result = "OperationDenied"
                               => /\ ports[cur][c].port_type = "Event"
                                  /\ vtl < ports[cur][c].minimum_vtl
      ]_vars

\* a message dispatch found an event port whose minimum VTL is 2, above the VTL of
\* some caller, and was refused with InvalidConnectionId; the port's entry is in the
\* map and its handle is held
C26_Witness ==
    \E x \in Frames, h \in handles :
        /\ FrameAt(x).op = "post" /\ FrameAt(x).port.port_type = "Event"
        /\ FrameAt(x).port.minimum_vtl = 2
        /\ Refused(FrameAt(x), "InvalidConnectionId")
        /\ h.id = FrameAt(x).port.id /\ EntryOf(h)

\* the registrations in progress, other than frame x, that have passed their entry
\* step on the registry and connection ID of frame x
Rivals(x) ==
    {y \in Frames : /\ y # x /\ Registering(FrameAt(y)) /\ FrameAt(y).pc = "ret"
                    /\ FrameAt(y).result \in {"Ok", "ConnectionIdInUse"}
                    /\ FrameAt(y).reg = FrameAt(x).reg /\ FrameAt(y).conn = FrameAt(x).conn}

\* the variant a registration inserts
VariantOf(f) == IF f.op = "add_message" THEN "Message" ELSE "Event"

\* C27: of the registrations of one connection ID that are in progress together, at
\* most one has answered Ok; the entry of the ID is then the port of that one, with
\* its variant, and no other; the entry step of a registration answers Ok and inserts
\* its own port with its minimum VTL when the ID is free, and answers
\* ConnectionIdInUse and leaves the map alone when it is not; only the call that
\* answered Ok hands out a handle.
C27_OneWinner ==
    /\ [](\A x \in Frames :
             Registering(FrameAt(x)) /\ FrameAt(x).pc = "ret" /\ FrameAt(x).result = "Ok"
             => /\ ports[FrameAt(x).reg][FrameAt(x).conn].id = FrameAt(x).hid
                /\ ports[FrameAt(x).reg][FrameAt(x).conn].port_type = VariantOf(FrameAt(x))
                /\ \A y \in Rivals(x) : FrameAt(y).result = "ConnectionIdInUse"
                /\ \A h \in handles : h.id # FrameAt(x).hid)
    /\ [][\A t \in Threads :
             Depth(t) > 0 /\ Registering(Top(t)) /\ stack'[t] # stack[t]
             => /\ \A c \in ConnIds, m \in Vtl :
                      AddMessagePortEntry(t, c, m)
                      => IF ports[cur][c] = NoPort
                         THEN /\ TopAfter(t).result = "Ok"
                              /\ ports'[cur][c] = NewPort(Top(t).hid, "Message", m)
                         ELSE /\ TopAfter(t).result = "ConnectionIdInUse"
                              /\ ports' = ports
                /\ AddEventPortEntry(t)
                      => IF ports[cur][Top(t).conn] = NoPort
                         THEN /\ TopAfter(t).result = "Ok"
                              /\ ports'[cur][Top(t).conn]
                                    = NewPort(Top(t).hid, "Event", Top(t).vtl)
                         ELSE /\ TopAfter(t).result = "ConnectionIdInUse"
                              /\ ports' = ports
                /\ Return(t)
                      => handles' = IF Top(t).result = "Ok"
                                    THEN handles \cup {HandleOf(Top(t))} ELSE handles
      ]_vars

\* two threads registered the same free ID together, one a message port and one an
\* event port with a host binding: one has answered Ok, the other ConnectionIdInUse,
\* and neither has returned
C27_Witness ==
    \E x \in Frames :
        /\ Registering(FrameAt(x)) /\ FrameAt(x).pc = "ret" /\ FrameAt(x).result = "Ok"
        /\ handles = {}
        /\ \E y \in Rivals(x) : /\ y[1] # x[1] /\ FrameAt(y).op # FrameAt(x).op
                                /\ FrameAt(y).result = "ConnectionIdInUse"
                                /\ (FrameAt(x).inner \/ FrameAt(y).inner)

\* frame f is an add_event_port call that made a host binding and then found its
\* connection ID occupied
LostWithBinding(f) ==
    /\ f.op = "add_event" /\ f.inner /\ f.pc = "ret" /\ f.result = "ConnectionIdInUse"

\* C28: an add_event_port call that made a host binding and then found its ID
\* occupied has inserted nothing and removed nothing: its port is not in the map,
\* its entry step left the occupied entry as it was, and its return tears its
\* binding down, hands out no handle and leaves the map as it is; and every binding
\* that exists belongs to a call in progress or to a handle that has not been
\* dropped, so none outlives such a call.
C28_LoserLeaksNothing ==
    /\ [](/\ \A x \in Frames :
                LostWithBinding(FrameAt(x))
                => /\ \A c \in ConnIds : ports[FrameAt(x).reg][c].id # FrameAt(x).hid
                   /\ \A h \in handles : h.id # FrameAt(x).hid
          /\ \A b \in bindings :
                \/ \E x \in Frames : FrameAt(x).hid = b.id /\ FrameAt(x).inner
                \/ \E h \in handles : h.id = b.id /\ h.inner)
    /\ [][\A t \in Threads :
             Depth(t) > 0 /\ Top(t).op = "add_event" /\ stack'[t] # stack[t]
             => /\ AddEventPortEntry(t) /\ ports[cur][Top(t).conn] # NoPort
                   => ports' = ports /\ bindings' = bindings
                /\ LostWithBinding(Top(t)) /\ Return(t)
                   => /\ Binding(Top(t)) \in bindings
                      /\ bindings' = bindings \ {Binding(Top(t))}
                      /\ handles' = handles
                      /\ ports' = ports
      ]_vars

\* an add_event_port call holds a host binding and has answered ConnectionIdInUse,
\* while the handle of the registration that owns the entry is held
C28_Witness ==
    \E x \in Frames :
        /\ LostWithBinding(FrameAt(x)) /\ Binding(FrameAt(x)) \in bindings
        /\ \E h \in handles : /\ h.connection_id = FrameAt(x).conn
                              /\ ports[cur][h.connection_id].id = h.id

\* C29: no step of on_post_message or on_signal_event (the lookup with its match,
\* the return of the handler, the return of the call with any result) changes a map,
\* the set of host bindings or the set of handles; while a dispatch is in progress
\* they change only by the steps of other calls, those the handler makes included.
C29_DispatchReadOnly ==
    [][\A t \in Threads :
          Depth(t) > 0 /\ Dispatching(Top(t)) /\ stack'[t] # stack[t]
          => /\ (\/ \E vtl \in Vtl, c \in ConnIds :
                       \/ \E a \in MessageArgs : PostMessageLookup(t, vtl, c, a)
                       \/ \E flag \in FlagNumbers : SignalEventLookup(t, vtl, c, flag)
                 \/ \E b \in BOOLEAN : HandleMessageReturns(t, b)
                 \/ HandleEventReturns(t)
                 \/ Return(t))
                => /\ ports' = ports /\ bindings' = bindings /\ handles' = handles
                   /\ cur' = cur /\ live' = live
             /\ Len(stack'[t]) <= Depth(t)
                => ports' = ports /\ bindings' = bindings /\ handles' = handles
      ]_vars

\* a message dispatch has called its handler and answered Ok; the entry it found
\* and the entry and host binding of an event port are all still there
C29_Witness ==
    \E x \in Frames, h \in handles, g \in handles :
        /\ FrameAt(x).op = "post" /\ FrameAt(x).pc = "ret" /\ FrameAt(x).result = "Ok"
        /\ h.id = FrameAt(x).port.id /\ EntryOf(h)
        /\ g.inner /\ Bound(g.id) /\ EntryOf(g)

\* frame f is an add_event_port call that holds no host binding: its port exposed no
\* event of the host, or the partition answered Ok(None)
Unbound(f) == f.op = "add_event" /\ f.host \in {"none", "None"}

\* C30: add_event_port asks the partition for a host event port exactly when its
\* port exposes an event of the host, and then goes by the partition's answer; a
\* call that did not ask, or was answered Ok(None), has made no binding, goes on to
\* its entry step, succeeds there when the ID is free, and hands out a handle that
\* holds no binding; a signal to an event port that has no binding, from a VTL its
\* gate admits, calls the port's handler with the flag.
C30_SoftwareDispatch ==
    /\ [](/\ \A x \in Frames :
                FrameAt(x).op = "add_event" /\ FrameAt(x).pc # "os_event"
                => /\ FrameAt(x).inner = (FrameAt(x).host = "Some")
                   /\ (FrameAt(x).result = "HostError") = (FrameAt(x).host = "Err")
                   /\ Unbound(FrameAt(x)) => ~Bound(FrameAt(x).hid)
          /\ \A h \in handles : ~h.inner => ~Bound(h.id))
    /\ [][\A t \in Threads :
             Depth(t) > 0 /\ Top(t).op \in {"add_event", "signal"} /\ stack'[t] # stack[t]
             => /\ \A c \in ConnIds, m \in Vtl, os_event \in BOOLEAN, answer \in HostAnswers :
                      NewHostEventPort(t, c, m, os_event, answer)
                      => /\ (TopAfter(t).host # "none") = os_event
                         /\ os_event => TopAfter(t).host = answer
                         /\ Unbound(TopAfter(t))
                            => TopAfter(t).pc = "lock" /\ bindings' = bindings
                /\ AddEventPortEntry(t) /\ Unbound(Top(t)) /\ ports[cur][Top(t).conn] = NoPort
                      => /\ TopAfter(t).result = "Ok"
                         /\ ports'[cur][Top(t).conn] = NewPort(Top(t).hid, "Event", Top(t).vtl)
                /\ Return(t) /\ Unbound(Top(t)) /\ Top(t).result = "Ok"
                      => /\ handles' = handles \cup {HandleOf(Top(t))}
                         /\ ~HandleOf(Top(t)).inner
                         /\ bindings' = bindings
                /\ \A vtl \in Vtl, c \in ConnIds, flag \in FlagNumbers :
                      /\ SignalEventLookup(t, vtl, c, flag)
                      /\ ports[cur][c].port_type = "Event" /\ ~Bound(ports[cur][c].id)
                      /\ vtl >= ports[cur][c].minimum_vtl
                      => /\ Invoked(TopAfter(t), ports[cur][c])
                         /\ TopAfter(t).recv[1].arg = flag
      ]_vars

\* a signal is inside the handler of an event port whose handle holds no binding,
\* while another add_event_port call, answered Ok(None) by the partition, is about
\* to insert its entry
C30_Witness ==
    \E x, y \in Frames, h \in handles :
        /\ FrameAt(x).op = "signal" /\ FrameAt(x).pc = "handler"
        /\ h.id = FrameAt(x).port.id /\ ~h.inner /\ ~Bound(h.id) /\ EntryOf(h)
        /\ FrameAt(y).op = "add_event" /\ FrameAt(y).pc = "lock" /\ FrameAt(y).host = "None"
        /\ bindings = {}

\* thread t is in a call made from inside the handler of a dispatch
Nested(t) ==
    /\ Depth(t) = 2 /\ Dispatching(stack[t][1]) /\ stack[t][1].pc = "handler"

\* the handle of the port that frame f dispatches to has been dropped
OwnReleased(f) ==
    \E r \in released : r.handle.id = f.port.id /\ r.handle.connection_id = f.conn

\* C31: a call made from inside a handler completes; where it takes the lock the
\* lock is free, also when it is the drop of the handler's own handle or a dispatch
\* to the handler's own ID; after the handler's own handle was dropped from inside
\* it the entry is not in the map, the outer dispatch answers by the handler's
\* return value, and a dispatch that then looks the ID up, while nothing else is
\* registered at it, answers InvalidConnectionId.
C31_HandlerReenters ==
    /\ \A t \in Threads : Nested(t) ~> Depth(t) < 2
    /\ [](\A t \in Threads : Nested(t) /\ Top(t).pc = "lock" => lock = NoLock)
    /\ [](\A x \in Frames :
             Dispatching(FrameAt(x)) /\ OwnReleased(FrameAt(x))
             => ports[FrameAt(x).reg][FrameAt(x).conn].id # FrameAt(x).port.id)
    /\ [][\A t \in Threads :
             Depth(t) > 0 /\ Dispatching(Top(t)) /\ stack'[t] # stack[t]
             => /\ Top(t).pc = "handler" /\ OwnReleased(Top(t))
                   => /\ \A b \in BOOLEAN :
                            HandleMessageReturns(t, b)
                            => TopAfter(t).result = IF b THEN "Ok" ELSE "InsufficientBuffers"
                      /\ HandleEventReturns(t) => TopAfter(t).result = "Ok"
                /\ Nested(t) /\ OwnReleased(stack[t][1])
                      /\ ports[cur][stack[t][1].conn] = NoPort
                   => \A vtl \in Vtl :
                         /\ \A a \in MessageArgs :
                               PostMessageLookup(t, vtl, stack[t][1].conn, a)
                               => Refused(TopAfter(t), "InvalidConnectionId")
                         /\ \A flag \in FlagNumbers :
                               SignalEventLookup(t, vtl, stack[t][1].conn, flag)
                               => Refused(TopAfter(t), "InvalidConnectionId")
      ]_vars

\* a handler dropped the handle of its own port and then dispatched to its own ID:
\* that dispatch has answered InvalidConnectionId, and the outer dispatch is still
\* inside the handler
C31_Witness ==
    \E t \in Threads :
        /\ Nested(t) /\ OwnReleased(stack[t][1])
        /\ Dispatching(Top(t)) /\ Top(t).conn = stack[t][1].conn
        /\ Refused(Top(t), "InvalidConnectionId")

\* the outer dispatch has answered Ok after its handler dropped its own handle
C31_WitnessOuter ==
    \E t \in Threads :
        /\ Depth(t) = 1 /\ Dispatching(Top(t)) /\ OwnReleased(Top(t))
        /\ Top(t).pc = "ret" /\ Top(t).result = "Ok"

\* a handle for connection ID c of registry g has been dropped while g's map existed
ReleasedAt(g, c) ==
    {r \in released : r.handle.reg = g /\ r.handle.connection_id = c /\ ~r.gone}

\* C32: the port of a registration whose handle has been dropped is in no map; a
\* registration of the ID after that inserts its own port, with its own variant and
\* minimum VTL; and a dispatch that looks the ID up after that finds this entry only:
\* it is refused for the variant and gated by the minimum VTL of this entry, and the
\* handler it calls is this entry's, never that of the port whose handle was dropped.
C32_RoutedBySecond ==
    /\ [](\A r \in released, c \in ConnIds : ports[r.handle.reg][c].id # r.handle.id)
    /\ [][\A t \in Threads :
             Depth(t) > 0 /\ Top(t).pc = "lock" /\ stack'[t] # stack[t]
             => /\ \A c \in ConnIds, m \in Vtl :
                      AddMessagePortEntry(t, c, m) /\ ReleasedAt(cur, c) # {}
                         /\ ports[cur][c] = NoPort
                      => /\ ports'[cur][c] = NewPort(Top(t).hid, "Message", m)
                         /\ \A r \in ReleasedAt(cur, c) : r.handle.id # Top(t).hid
                /\ AddEventPortEntry(t) /\ ReleasedAt(cur, Top(t).conn) # {}
                         /\ ports[cur][Top(t).conn] = NoPort
                      => /\ ports'[cur][Top(t).conn]
                               = NewPort(Top(t).hid, "Event", Top(t).vtl)
                         /\ \A r \in ReleasedAt(cur, Top(t).conn) : r.handle.id # Top(t).hid
                /\ \A vtl \in Vtl, c \in ConnIds :
                      ReleasedAt(cur, c) # {} /\ ports[cur][c] # NoPort
                      => /\ \A a \in MessageArgs :
                               PostMessageLookup(t, vtl, c, a)
                               => /\ TopAfter(t).port = ports[cur][c]
                                  /\ IF ports[cur][c].port_type = "Message"
                                     THEN GateOutcome(TopAfter(t), vtl, ports[cur][c])
                                     ELSE Refused(TopAfter(t), "InvalidConnectionId")
                                  /\ \A r \in ReleasedAt(cur, c), k \in 1..Len(TopAfter(t).recv) :
                                        TopAfter(t).recv[k].id # r.handle.id
                         /\ \A flag \in FlagNumbers :
                               SignalEventLookup(t, vtl, c, flag)
                               => /\ TopAfter(t).port = ports[cur][c]
                                  /\ IF ports[cur][c].port_type = "Event"
                                     THEN GateOutcome(TopAfter(t), vtl, ports[cur][c])
                                     ELSE Refused(TopAfter(t), "InvalidConnectionId")
                                  /\ \A r \in ReleasedAt(cur, c), k \in 1..Len(TopAfter(t).recv) :
                                        TopAfter(t).recv[k].id # r.handle.id
      ]_vars

\* an ID was registered, its handle dropped, and the ID registered again as an event
\* port with minimum VTL 1; a signal to the ID is now inside the handler of the second
\* port, whose handle is held
C32_Witness ==
    \E x \in Frames, h \in handles :
        /\ FrameAt(x).op = "signal" /\ FrameAt(x).pc = "handler"
        /\ FrameAt(x).port.minimum_vtl = 1
        /\ h.id = FrameAt(x).port.id /\ EntryOf(h)
        /\ Invoked(FrameAt(x), ports[cur][FrameAt(x).conn])
        /\ ReleasedAt(cur, FrameAt(x).conn) # {}

\* C33: the drop of a handle that holds a host binding, started when its registry's
\* map no longer exists, goes straight to the drop of its fields: it takes no lock and
\* removes nothing from any map, and when it returns the binding of the handle is
\* torn down and no other binding is.
C33_BindingTornDownWhenGone ==
    /\ [](/\ \A r \in released : r.gone => ~Bound(r.handle.id)
          /\ \A x \in Frames :
                FrameAt(x).op = "drop" /\ FrameAt(x).result = "gone"
                => FrameAt(x).pc = "fields" /\ FrameAt(x).port = NoPort)
    /\ [][\A t \in Threads :
             /\ \A h \in handles :
                   CallDrop(t, h) /\ Strong(h.reg) = 0
                   => /\ TopAfter(t).pc = "fields" /\ TopAfter(t).inner = h.inner
                      /\ ports' = ports /\ bindings' = bindings
             /\ DropOfGone(t) /\ stack'[t] # stack[t]
                   => /\ ~ENABLED Remove(t)
                      /\ DropEnds(t)
                      /\ ports' = ports /\ lock' = lock
                      /\ bindings' = {b \in bindings : ~(Top(t).inner /\ b.id = Top(t).hid)}
      ]_vars

\* the drop of an event-port handle with a host binding has returned, started after
\* its registry was destroyed: the binding is gone, while the binding of another
\* handle is still there
C33_Witness ==
    \E r \in released, h \in handles :
        /\ r.gone /\ r.handle.inner /\ ~Bound(r.handle.id)
        /\ h.inner /\ Bound(h.id)

\* frame f is the drop of a handle with a host binding, on a map that exists, after
\* the removal of the entry and before the drop of the fields
BetweenRemoveAndTeardown(f) == f.op = "drop" /\ f.pc = "expect" /\ f.inner

\* frame f is an add_event_port call after the partition made its binding and before
\* its entry step
BetweenBindingAndInsert(f) == f.op = "add_event" /\ f.pc = "lock" /\ f.inner

\* C34: the drop of a handle with a host binding on a live map removes the entry
\* first and tears the binding down afterwards: the removal leaves the bindings as
\* they are, and between it and the end of the drop the binding exists while the
\* port is not in the map; a signal that looks the ID up then, with nothing else
\* registered at it, answers InvalidConnectionId with the binding still there.  In
\* add_event_port, between the partition's answer and the entry step, the binding
\* exists and the port is not in the map.
C34_IntermediateStates ==
    /\ [](\A x \in Frames :
             BetweenRemoveAndTeardown(FrameAt(x)) \/ BetweenBindingAndInsert(FrameAt(x))
             => /\ Binding(FrameAt(x)) \in bindings \/ Bound(FrameAt(x).hid)
                /\ \A c \in ConnIds : ports[FrameAt(x).reg][c].id # FrameAt(x).hid)
    /\ [][\A t \in Threads :
             Depth(t) > 0 /\ stack'[t] # stack[t]
             => /\ Top(t).op = "drop" /\ Top(t).inner /\ Remove(t)
                   => /\ bindings' = bindings /\ Bound(Top(t).hid)
                      /\ ports'[Top(t).reg][Top(t).conn] = NoPort
                      /\ BetweenRemoveAndTeardown(TopAfter(t))
                /\ BetweenRemoveAndTeardown(Top(t)) /\ DropEnds(t)
                   => /\ Bound(Top(t).hid) /\ \A b \in bindings' : b.id # Top(t).hid
                      /\ ports'[Top(t).reg][Top(t).conn].id # Top(t).hid
                /\ Top(t).op = "signal"
                   => \A vtl \in Vtl, c \in ConnIds, flag \in FlagNumbers :
                         /\ SignalEventLookup(t, vtl, c, flag)
                         /\ ports[cur][c] = NoPort
                         /\ \E x \in Frames : /\ BetweenRemoveAndTeardown(FrameAt(x))
                                              /\ FrameAt(x).reg = cur /\ FrameAt(x).conn = c
                         => /\ Refused(TopAfter(t), "InvalidConnectionId")
                            /\ \E b \in bindings' : b.conn = c
      ]_vars

\* a handle with a host binding is being dropped: its entry has been removed, its
\* binding is still there, and a signal to its ID has answered InvalidConnectionId
C34_Witness ==
    \E x, y \in Frames :
        /\ BetweenRemoveAndTeardown(FrameAt(x)) /\ FrameAt(x).reg = cur
        /\ Bound(FrameAt(x).hid)
        /\ FrameAt(y).op = "signal" /\ FrameAt(y).conn = FrameAt(x).conn
        /\ FrameAt(y).port = NoPort /\ Refused(FrameAt(y), "InvalidConnectionId")
        /\ ports[cur][FrameAt(x).conn] = NoPort

\* an add_event_port call has its binding and not yet its entry, and a signal to its
\* ID has answered InvalidConnectionId
C34_WitnessRegister ==
    \E x, y \in Frames :
        /\ BetweenBindingAndInsert(FrameAt(x)) /\ Bound(FrameAt(x).hid)
        /\ FrameAt(y).op = "signal" /\ FrameAt(y).conn = FrameAt(x).conn
        /\ FrameAt(y).port = NoPort /\ Refused(FrameAt(y), "InvalidConnectionId")
        /\ ports[cur][FrameAt(x).conn] = NoPort

\* C35: no call holds the map's lock at any point between its steps: not an
\* add_event_port call that is about to ask the partition or has asked it, not a drop
\* that holds the entry it removed or is dropping its fields, not a registration that
\* is returning with the port it could not insert, not a dispatch inside or after its
\* handler; the lock is taken and given back within the entry step, the removal and
\* the lookup, so every other step starts and ends with the lock free.
C35_MinimalCriticalSections ==
    /\ lock = NoLock
    /\ \A x \in Frames :
          FrameAt(x).pc \in {"os_event", "lock", "handler", "expect", "fields", "ret"}
          => lock # x

\* one thread's drop holds the entry it removed, which it is about to destroy, while
\* another thread's add_event_port has got its binding from the partition and is
\* about to take the lock: the lock is free
C35_Witness ==
    \E x, y \in Frames :
        /\ x[1] # y[1]
        /\ FrameAt(x).op = "drop" /\ FrameAt(x).pc = "expect" /\ FrameAt(x).port # NoPort
        /\ FrameAt(y).op = "add_event" /\ FrameAt(y).pc = "lock" /\ FrameAt(y).host = "Some"
        /\ lock = NoLock

====
